---- MODULE Spec2Model ----
(***************************************************************************)
(* Interview-session client of just-in-case: the company page's session    *)
(* flow and status polling loop (frontend/src/app/company/[slug]/page.tsx), *)
(* and the analysis page's retrieval loop (interview/analysis/page.tsx).    *)
(*                                                                         *)
(* A React state update, the render it causes and the effects of that      *)
(* render are one step: the handlers below end with the polling effect.    *)
(* Suspension happens only at the awaits of fetch, so a request is issued   *)
(* in one step, answered by the backend in another and delivered to the     *)
(* page in a third; deliveries may happen in any order.                     *)
(***************************************************************************)
EXTENDS Integers, Sequences, FiniteSets, TLC

(***************************************************************************)
(* Bounds of the exploration.                                              *)
(***************************************************************************)
MaxRooms == 1         \* rooms the provisioning gateway can allocate (Spec)
MaxInFlight == 2      \* status fetches of one page in flight at a time (Spec)
MaxControl == 2       \* create and start requests in flight at a time (Spec)
SwitchRooms == 2      \* rooms the gateway can allocate (SpecSwitch)
SwitchInFlight == 1   \* status fetches in flight at a time (SpecSwitch)
SwitchControl == 1    \* create and start requests in flight at a time (SpecSwitch)
MaxSelects == 1       \* selection changes made by the user
NumInterviews == 2    \* interview types listed for the company
MaxScopes == 2        \* runs of the analysis page's effect that fetch
FlowRooms == 1        \* rooms the gateway can allocate (SpecFlow)
FlowInFlight == 1     \* status fetches in flight at a time (SpecFlow)
FlowControl == 1      \* create and start requests in flight at a time (SpecFlow)
PendingCap == 2       \* pending answers shown for one conversation are counted up to this
MaxInbound == 2       \* requests that reach the route handlers

(***************************************************************************)
(* JSON objects.  An object is a function from field names to values; a    *)
(* key the object does not have maps to Absent.                            *)
(***************************************************************************)
Absent == "<absent>"
NullV == "<null>"

JsonFields ==
  {"sessionId", "roomUrl", "status", "lastError", "conversationId", "message", "detail",
   "conversation_id", "updated_at", "analysis"}

EmptyObj == [f \in JsonFields |-> Absent]

\* the ids the orchestrator gives the sessions it creates, in order: s1, s2, ...
Sid(i) == "s" \o ToString(i)
SessionIds == {Sid(i) : i \in 1..(IF MaxRooms > SwitchRooms THEN MaxRooms ELSE SwitchRooms)}
RoomOf(sid) == "https://x.daily.co/" \o sid
ConvOf(sid) == "conv-" \o sid

\* page.tsx: statuses named by SESSION_STATUS_LABELS, and one the table lacks
KnownStatuses ==
  {"room_created", "bot_starting", "bot_running", "bot_stopping", "bot_completed", "bot_error"}
UnknownStatus == "bot_paused"
TerminalStatuses == {"bot_completed", "bot_error"}

SESSION_STATUS_LABELS(st) ==
  CASE st = "room_created" -> "Room ready - join the link below when you're set."
    [] st = "bot_starting" -> "Summoning the AI interviewer..."
    [] st = "bot_running" -> "AI interviewer is live in the room."
    [] st = "bot_stopping" -> "Wrapping up the session..."
    [] st = "bot_completed" -> "Session completed."
    [] st = "bot_error" -> "Something went wrong starting the AI. Try again."
    [] OTHER -> Absent

pollableStatusesNoStopping == {"bot_starting", "bot_running"}
pollableStatuses == {"bot_starting", "bot_running", "bot_stopping"}

POLL_INTERVAL_MS == 4000

(***************************************************************************)
(* State.                                                                  *)
(***************************************************************************)
VARIABLES
  mounted,            \* the CompanyDetailPage instance is mounted
  selectedInterview,  \* useState(0)
  session,            \* useState<InterviewSession | null>(null): [null, obj]
  isCreatingSession,  \* useState(false)
  isStartingBot,      \* useState(false)
  errorMessage,       \* useState<string | null>(null)
  timers,             \* interval timers the runtime holds: [id, sid, ms]
  intervalId,         \* id the polling effect's cleanup will clear (0: no cleanup)
  statusReqs,         \* status fetches in flight, oldest first
  controlReqs,        \* create and start requests in flight
  backend,            \* session store of the backend: sid -> [status, launches]
  limits,             \* the run's limits: [rooms, inflight, control], never changed
  epoch,              \* history: number of selection changes so far
  terminalSeen,       \* history: session ids whose terminal status the view has held
  ev,                 \* history: the step just taken
  aMounted,           \* the AnalysisContent instance is mounted
  conversationId,     \* searchParams.get("conversationId"), NullV when missing
  status,             \* useState<AnalysisStatus | null>(null): [null, obj]
  isLoading,          \* useState(false)
  error,              \* useState<string | null>(null)
  scope,              \* the effect run whose cleanup is pending (0: none)
  closures,           \* per effect run, its locals: [isCancelled, timeout (0: null)]
  timeouts,           \* timeouts the runtime holds: [id, scope, ms]
  analysisReqs,       \* analysis fetches in flight
  artifacts,          \* analysis store of the backend: conversation id -> status
  aev,                \* history: the step the analysis page just took
  viewLog,            \* history: per conversation id, what the view has shown
  inbound,            \* route handler invocations, by arrival: the request and where it stands
  upstreamReqs,       \* the requests forwardToBackend has sent to the backend, in order
  outbox              \* what the route handlers have returned to their callers, in order

pageVars ==
  <<mounted, selectedInterview, session, isCreatingSession, isStartingBot, errorMessage,
    timers, intervalId, statusReqs, controlReqs, backend, limits, epoch, terminalSeen, ev>>

analysisVars ==
  <<aMounted, conversationId, status, isLoading, error, scope, closures, timeouts,
    analysisReqs, artifacts, aev, viewLog>>

routeVars == <<inbound, upstreamReqs, outbox>>

vars == <<pageVars, analysisVars, routeVars>>

NullSession == [null |-> TRUE, obj |-> EmptyObj]

\* session?.sessionId and session?.status: undefined for a null session
SidOf(s) == IF s.null THEN Absent ELSE s.obj["sessionId"]
StatusOf(s) == IF s.null THEN Absent ELSE s.obj["status"]

(***************************************************************************)
(* HTTP responses as the page sees them: fetch rejects (net = "throw") or  *)
(* resolves with response.ok and a body that is a JSON object or is not    *)
(* JSON.                                                                   *)
(***************************************************************************)
NoResp == [net |-> "none", ok |-> FALSE, json |-> FALSE, obj |-> EmptyObj]
RespOk(o) == [net |-> "ok", ok |-> TRUE, json |-> TRUE, obj |-> o]
RespErr(o) == [net |-> "ok", ok |-> FALSE, json |-> TRUE, obj |-> o]
RespNotJson(isOk) == [net |-> "ok", ok |-> isOk, json |-> FALSE, obj |-> EmptyObj]
RespThrow == [net |-> "throw", ok |-> FALSE, json |-> FALSE, obj |-> EmptyObj]

FallbackBody == [EmptyObj EXCEPT !["message"] = "Unexpected backend response"]
UnreachableBody == [EmptyObj EXCEPT !["message"] = "Unable to reach backend service"]
DetailBody(d) == [EmptyObj EXCEPT !["detail"] = d]

\* the ways a status fetch fails: non-2xx, a body that is not JSON, a rejected fetch
StatusFailures == {RespErr(DetailBody("Session not found")), RespNotJson(TRUE), RespThrow}
\* the ways a create or start request fails: non-2xx with a detail, the 502 of
\* an unreachable backend, a body that is not JSON with a non-2xx or a 2xx
\* status, a rejected fetch
ControlFailures ==
  {RespErr(DetailBody("Room allocation failed")), RespErr(UnreachableBody),
   RespNotJson(FALSE), RespNotJson(TRUE), RespThrow}

\* What the page can receive for request r.  A request the backend answered
\* delivers that answer, or is lost on the way back; one it has not answered
\* fails in one of the ways of failures.
Outcomes(r, failures) ==
  IF r.phase = "answered" THEN {r.resp, RespThrow} ELSE failures

\* a create or start request goes through forwardToBackend, which answers an
\* upstream body that is not JSON with the fallback object and the upstream's
\* status, 2xx included
ControlOutcomes(r) == Outcomes(r, ControlFailures \cup {RespOk(FallbackBody)})

StatusRequest(sid) == [sid |-> sid, phase |-> "sent", resp |-> NoResp, stale |-> FALSE]
\* each call of fetch is a request of its own: tag tells apart two requests in
\* flight that are otherwise alike
FreshTag(reqs) == CHOOSE i \in 1..(Cardinality(reqs) + 1) : \A r \in reqs : r.tag # i
ControlRequest(kind, sid) ==
  [kind |-> kind, sid |-> sid, epoch |-> epoch, tag |-> FreshTag(controlReqs),
   phase |-> "sent", resp |-> NoResp]

Answered(r, resp) == [r EXCEPT !.phase = "answered", !.resp = resp]

\* the sequence q without its i-th element
RemoveAt(q, i) == [j \in 1..(Len(q) - 1) |-> IF j < i THEN q[j] ELSE q[j + 1]]

\* history: once the backend's answer to the i-th fetch is merged, the older
\* fetches of the same session whose answers are still on their way are superseded
Supersede(q, i) ==
  [j \in 1..Len(q) |->
     IF j < i /\ q[j].sid = q[i].sid /\ q[j].phase = "answered" /\ q[i].phase = "answered"
     THEN [q[j] EXCEPT !.stale = TRUE] ELSE q[j]]

\* parseJsonSafe: the parsed body, or null when response.json() throws
parseJsonSafe(resp) ==
  IF resp.json THEN [null |-> FALSE, obj |-> resp.obj] ELSE NullSession

\* prev ? { ...prev, ...data } : data
MergeSessionReplace(prev, data) == data
MergeSession(prev, data) ==
  IF prev.null THEN data
  ELSE [null |-> FALSE,
        obj |-> [f \in JsonFields |->
                   IF data.obj[f] # Absent THEN data.obj[f] ELSE prev.obj[f]]]

\* data?.detail ?? data?.message ?? fallback
ErrorTextGeneric(data, fallback) == fallback
ErrorText(data, fallback) ==
  IF ~data.null /\ data.obj["detail"] \notin {Absent, NullV} THEN data.obj["detail"]
  ELSE IF ~data.null /\ data.obj["message"] \notin {Absent, NullV} THEN data.obj["message"]
  ELSE fallback

NetworkErrorText == "Failed to fetch"

\* fetchSessionStatus: the response is merged only past both early returns
StatusUsableIgnoringOk(resp) == resp.net = "ok" /\ resp.json
StatusUsable(resp) == resp.net = "ok" /\ resp.ok /\ resp.json

(***************************************************************************)
(* The polling effect, deps [session?.sessionId, session?.status,          *)
(* fetchSessionStatus]; fetchSessionStatus changes with session?.sessionId. *)
(***************************************************************************)
DepsChanged(old, new) == SidOf(old) # SidOf(new) \/ StatusOf(old) # StatusOf(new)

ShouldPoll(s) == SidOf(s) # Absent /\ StatusOf(s) \in pollableStatuses

\* clearInterval(intervalId)
ClearIntervalNoop(tms, id) == tms
ClearInterval(tms, id) == {t \in tms : t.id # id}

\* setInterval returns an id no live timer has
FreshTimerId(tms) == CHOOSE i \in 1..(Cardinality(tms) + 1) : \A t \in tms : t.id # i

PollEffect(old, new) ==
  LET changed == DepsChanged(old, new)
      cleared == IF changed THEN ClearInterval(timers, intervalId) ELSE timers
      polls == changed /\ ShouldPoll(new)
      id == FreshTimerId(cleared)
  IN [timers |-> IF polls
                 THEN cleared \cup {[id |-> id, sid |-> SidOf(new), ms |-> POLL_INTERVAL_MS]}
                 ELSE cleared,
      intervalId |-> IF ~changed THEN intervalId ELSE IF polls THEN id ELSE 0,
      polls |-> polls]

SeenTerminal(s) ==
  IF SidOf(s) # Absent /\ StatusOf(s) \in TerminalStatuses THEN {SidOf(s)} ELSE {}

\* history: what the step did.  kind names the handler; fetched is the session
\* id of the status fetch the step issued (Absent: none); stale tells that the
\* response the step delivered belongs to a superseded fetch
Event(kind, fetched, stale) == [kind |-> kind, fetched |-> fetched, stale |-> stale]

\* history: the response is a failure (a rejected fetch, a non-2xx status, a body
\* that is not JSON), whatever the handler makes of it
ResponseFailed(resp) == resp.net = "throw" \/ ~resp.ok \/ ~resp.json

Outcome(name, resp) == IF ResponseFailed(resp) THEN name \o "_fail" ELSE name \o "_ok"

\* setSession(new), the render and the polling effect's cleanup and body;
\* q holds the status fetches the handler leaves in flight
Render(kind, new, q, stale) ==
  LET e == PollEffect(session, new) IN
  /\ e.polls => Len(q) < limits.inflight
  /\ session' = new
  /\ timers' = e.timers
  /\ intervalId' = e.intervalId
  /\ statusReqs' = IF e.polls THEN Append(q, StatusRequest(SidOf(new))) ELSE q
  /\ terminalSeen' = terminalSeen \cup SeenTerminal(new)
  /\ ev' = Event(kind, IF e.polls THEN SidOf(new) ELSE Absent, stale)

(***************************************************************************)
(* Session store of the backend (spec section 4.1): the orchestrator's     *)
(* state machine and the snapshot its endpoints return.                     *)
(***************************************************************************)
NoBackendSession == [status |-> "none", launches |-> 0]

Snapshot(sid, b) ==
  [EmptyObj EXCEPT
     !["sessionId"] = sid,
     !["roomUrl"] = RoomOf(sid),
     !["status"] = b.status,
     !["lastError"] = IF b.status = "bot_error" THEN "agent failed" ELSE Absent,
     !["conversationId"] = IF b.status = "bot_completed" THEN ConvOf(sid) ELSE Absent]

CreatedCount == Cardinality({sid \in SessionIds : backend[sid].status # "none"})

EnvEvent == Event("env", Absent, FALSE)

pageUnchanged ==
  UNCHANGED <<mounted, selectedInterview, session, isCreatingSession, isStartingBot,
              errorMessage, timers, intervalId, limits, analysisVars, routeVars, epoch, terminalSeen>>

\* CreateSession: a room is provisioned and the session stored as room_created
BackendCreateSession(r) ==
  /\ r \in controlReqs /\ r.kind = "create" /\ r.phase = "sent"
  /\ CreatedCount < limits.rooms
  /\ LET sid == Sid(CreatedCount + 1)
         b == [status |-> "room_created", launches |-> 0]
     IN /\ backend' = [backend EXCEPT ![sid] = b]
        /\ controlReqs' = (controlReqs \ {r}) \cup {Answered(r, RespOk(Snapshot(sid, b)))}
  /\ ev' = EnvEvent
  /\ UNCHANGED statusReqs
  /\ pageUnchanged

\* StartAgent on the stored session b: room_created -> bot_starting with one
\* launch; anything else leaves the record as it is
StartedRecordRelaunch(b) == [b EXCEPT !.status = "bot_starting", !.launches = b.launches + 1]
StartedRecord(b) ==
  IF b.status = "room_created"
  THEN [b EXCEPT !.status = "bot_starting", !.launches = b.launches + 1]
  ELSE b

\* StartAgent fails with InvalidStateError after a terminal status
StartRefusedNever(b) == FALSE
StartRefused(b) == b.status \in TerminalStatuses

\* history: what a StartAgent call met
StartKind(b) ==
  IF b.status = "room_created" THEN "start_launch"
  ELSE IF b.status \in TerminalStatuses THEN "start_refused"
  ELSE "start_repeat"

\* StartAgent: room_created -> bot_starting with one launch; a repeat while the
\* agent is starting or running is a no-op; after a terminal status it fails
BackendStartAgent(r) ==
  /\ r \in controlReqs /\ r.kind = "start" /\ r.phase = "sent"
  /\ r.sid \in SessionIds /\ backend[r.sid].status # "none"
  /\ LET b == backend[r.sid]
         nb == StartedRecord(b)
         resp == IF StartRefused(b)
                 THEN RespErr(DetailBody("Session already finished"))
                 ELSE RespOk(Snapshot(r.sid, nb))
     IN /\ backend' = [backend EXCEPT ![r.sid] = nb]
        /\ controlReqs' = (controlReqs \ {r}) \cup {Answered(r, resp)}
  /\ ev' = Event(StartKind(backend[r.sid]), Absent, FALSE)
  /\ UNCHANGED statusReqs
  /\ pageUnchanged

\* GetStatus: the current snapshot
BackendGetStatus(i) ==
  /\ i \in 1..Len(statusReqs) /\ statusReqs[i].phase = "sent"
  /\ LET r == statusReqs[i] IN
       /\ r.sid \in SessionIds /\ backend[r.sid].status # "none"
       /\ statusReqs' =
            [statusReqs EXCEPT ![i] = Answered(r, RespOk(Snapshot(r.sid, backend[r.sid])))]
  /\ ev' = EnvEvent
  /\ UNCHANGED <<backend, controlReqs>>
  /\ pageUnchanged

\* a status the page's tables do not name, reported while the agent is active
BackendUnknownStatus(i) ==
  /\ i \in 1..Len(statusReqs) /\ statusReqs[i].phase = "sent"
  /\ LET r == statusReqs[i] IN
       /\ r.sid \in SessionIds /\ backend[r.sid].status \in pollableStatuses
       /\ LET o == [Snapshot(r.sid, backend[r.sid]) EXCEPT !["status"] = UnknownStatus]
          IN statusReqs' = [statusReqs EXCEPT ![i] = Answered(r, RespOk(o))]
  /\ ev' = EnvEvent
  /\ UNCHANGED <<backend, controlReqs>>
  /\ pageUnchanged

NextStatusBackwards(st) == "room_created"
NextStatus(st) ==
  CASE st = "bot_starting" -> "bot_running"
    [] st = "bot_running" -> "bot_stopping"
    [] st = "bot_stopping" -> "bot_completed"
    [] OTHER -> st

\* the agent's signals: the next lifecycle status, or bot_error
AgentAdvances(sid) ==
  /\ backend[sid].status \in pollableStatuses
  /\ \E st \in {NextStatus(backend[sid].status), "bot_error"} :
       backend' = [backend EXCEPT ![sid].status = st]
  /\ ev' = EnvEvent
  /\ UNCHANGED <<statusReqs, controlReqs>>
  /\ pageUnchanged

(***************************************************************************)
(* CompanyDetailPage.                                                      *)
(***************************************************************************)
\* the reset effect, deps [slug, selectedInterview], after the user picks
\* another interview type
SelectInterview(i) ==
  /\ mounted /\ i # selectedInterview /\ epoch < MaxSelects
  /\ selectedInterview' = i
  /\ epoch' = epoch + 1
  /\ errorMessage' = NullV
  /\ isCreatingSession' = FALSE
  /\ isStartingBot' = FALSE
  /\ Render("select", NullSession, statusReqs, FALSE)
  /\ UNCHANGED <<mounted, controlReqs, backend, limits, analysisVars, routeVars>>

\* handleCreateSession up to its await; the button is disabled while isCreatingSession
handleCreateSession ==
  /\ mounted /\ ~isCreatingSession
  /\ Cardinality(controlReqs) < limits.control
  /\ isCreatingSession' = TRUE
  /\ errorMessage' = NullV
  /\ controlReqs' = controlReqs \cup {ControlRequest("create", Absent)}
  /\ ev' = Event("create", Absent, FALSE)
  /\ UNCHANGED <<mounted, selectedInterview, session, isStartingBot, timers, intervalId,
                 statusReqs, backend, limits, analysisVars, routeVars, epoch, terminalSeen>>

\* a response reaching a page that is no longer mounted changes nothing
Dropped ==
  /\ ev' = Event("dropped", Absent, FALSE)
  /\ UNCHANGED <<mounted, selectedInterview, session, isCreatingSession, isStartingBot,
                 errorMessage, timers, intervalId, backend, limits, analysisVars, routeVars,
                 epoch, terminalSeen>>

\* handleCreateSession from its await on
handleCreateSessionResume(r, resp) ==
  /\ r \in controlReqs /\ r.kind = "create"
  /\ resp \in ControlOutcomes(r)
  /\ controlReqs' = controlReqs \ {r}
  /\ LET data == parseJsonSafe(resp)
         failed == resp.net = "throw" \/ ~resp.ok \/ data.null
         msg == IF resp.net = "throw" THEN NetworkErrorText
                ELSE IF ~resp.ok THEN ErrorText(data, "Unable to start interview.")
                ELSE "Unexpected response from server while starting the interview."
     IN IF ~mounted THEN Dropped /\ UNCHANGED statusReqs
        ELSE /\ isCreatingSession' = FALSE
             /\ errorMessage' = IF failed THEN msg ELSE errorMessage
             /\ Render(Outcome("create", resp),
                       IF failed THEN session ELSE data, statusReqs, FALSE)
             /\ UNCHANGED <<mounted, selectedInterview, isStartingBot, backend, limits, analysisVars, routeVars,
                            epoch>>

\* canStartBot
canStartBot == StatusOf(session) = "room_created"

\* handleStartBot up to its await; the button is disabled unless canStartBot
handleStartBot ==
  /\ mounted /\ ~session.null /\ canStartBot /\ ~isStartingBot
  /\ Cardinality(controlReqs) < limits.control
  /\ isStartingBot' = TRUE
  /\ errorMessage' = NullV
  /\ controlReqs' = controlReqs \cup {ControlRequest("start", SidOf(session))}
  /\ ev' = Event("start", Absent, FALSE)
  /\ UNCHANGED <<mounted, selectedInterview, session, isCreatingSession, timers, intervalId,
                 statusReqs, backend, limits, analysisVars, routeVars, epoch, terminalSeen>>

\* handleStartBot from its await on
handleStartBotResume(r, resp) ==
  /\ r \in controlReqs /\ r.kind = "start"
  /\ resp \in ControlOutcomes(r)
  /\ controlReqs' = controlReqs \ {r}
  /\ LET data == parseJsonSafe(resp)
         failed == resp.net = "throw" \/ ~resp.ok \/ data.null
         msg == IF resp.net = "throw" THEN NetworkErrorText
                ELSE IF ~resp.ok THEN ErrorText(data, "Unable to bring the AI into the room.")
                ELSE "Unexpected response from server while starting the AI."
     IN IF ~mounted THEN Dropped /\ UNCHANGED statusReqs
        ELSE /\ isStartingBot' = FALSE
             /\ errorMessage' = IF failed THEN msg ELSE errorMessage
             /\ Render(Outcome("start", resp),
                       IF failed THEN session ELSE MergeSession(session, data),
                       statusReqs, FALSE)
             /\ UNCHANGED <<mounted, selectedInterview, isCreatingSession, backend, limits, analysisVars, routeVars,
                            epoch>>

\* a tick of the interval: poll() calls the fetchSessionStatus of the render
\* that set the interval, whose session?.sessionId is the timer's sid
poll(t) ==
  /\ t \in timers
  /\ Len(statusReqs) < limits.inflight
  /\ statusReqs' = IF t.sid = Absent THEN statusReqs
                   ELSE Append(statusReqs, StatusRequest(t.sid))
  /\ ev' = Event("tick", t.sid, FALSE)
  /\ UNCHANGED <<mounted, selectedInterview, session, isCreatingSession, isStartingBot,
                 errorMessage, timers, intervalId, controlReqs, backend, limits, analysisVars, routeVars,
                 epoch,
                 terminalSeen>>

\* fetchSessionStatus from its await on
fetchSessionStatusResume(i, resp) ==
  /\ i \in 1..Len(statusReqs)
  /\ resp \in Outcomes(statusReqs[i], StatusFailures)
  /\ LET r == statusReqs[i]
         data == parseJsonSafe(resp)
         usable == StatusUsable(resp)
     IN IF ~mounted THEN Dropped /\ statusReqs' = RemoveAt(statusReqs, i)
        ELSE /\ Render(Outcome("status", resp),
                       IF usable THEN MergeSession(session, data) ELSE session,
                       RemoveAt(IF usable THEN Supersede(statusReqs, i) ELSE statusReqs, i),
                       r.stale)
             /\ UNCHANGED <<mounted, selectedInterview, isCreatingSession, isStartingBot,
                            errorMessage, backend, limits, analysisVars, routeVars, epoch>>
  /\ UNCHANGED controlReqs

\* the page is left: the polling effect's cleanup runs and the instance's state is
\* discarded
LeavePage(kind) ==
  /\ mounted
  /\ mounted' = FALSE
  /\ timers' = ClearInterval(timers, intervalId)
  /\ intervalId' = 0
  /\ selectedInterview' = 0
  /\ session' = NullSession
  /\ isCreatingSession' = FALSE
  /\ isStartingBot' = FALSE
  /\ errorMessage' = NullV
  /\ ev' = Event(kind, Absent, FALSE)
  /\ UNCHANGED <<statusReqs, controlReqs, backend, limits, epoch, terminalSeen>>

Unmount == LeavePage("unmount") /\ UNCHANGED <<analysisVars, routeVars>>

(***************************************************************************)
(* AnalysisContent (interview/analysis/page.tsx): the analysis retrieval   *)
(* loop.  Each run of the effect is a scope with its own isCancelled and   *)
(* timeout; a fetch belongs to the scope that issued it.                    *)
(***************************************************************************)
ConversationIds == {ConvOf(sid) : sid \in SessionIds}

RETRY_DELAY_MS == 5000

NullStatus ==
  [null |-> TRUE,
   obj |-> [conversationId |-> Absent, status |-> Absent, updatedAt |-> Absent,
            analysis |-> Absent]]

\* normalizeResponse
normalizeResponseKeepAbsent(data) ==
  [conversationId |-> data["conversation_id"], status |-> data["status"],
   updatedAt |-> data["updated_at"], analysis |-> data["analysis"]]
normalizeResponse(data) ==
  [conversationId |-> data["conversation_id"],
   status |-> data["status"],
   updatedAt |-> data["updated_at"],
   analysis |-> IF data["analysis"] \in {Absent, NullV} THEN NullV ELSE data["analysis"]]

\* README, Interview Analysis API: what the backend answers for a conversation
\* whose analysis is pending (the bare {"status": "pending"} of a missing file,
\* or the full record with a null analysis) or ready
PendingBodies(c) ==
  {[EmptyObj EXCEPT !["status"] = "pending"],
   [EmptyObj EXCEPT !["conversation_id"] = c, !["status"] = "pending",
                    !["updated_at"] = "t0", !["analysis"] = NullV]}
ReadyBody(c) ==
  [EmptyObj EXCEPT !["conversation_id"] = c, !["status"] = "ready",
                   !["updated_at"] = "t1", !["analysis"] = "report"]

\* the ways an analysis fetch fails: non-2xx with a detail, the fallback body of
\* forwardToBackend with a non-2xx status, the 502 of an unreachable backend, a
\* body that is not JSON, a rejected fetch
AnalysisFailures ==
  {RespErr(DetailBody("Analysis not found")), RespErr(FallbackBody),
   RespErr(UnreachableBody), RespNotJson(TRUE), RespThrow}

\* the analysis route relays an upstream body that is not JSON as the fallback
\* object with the upstream's status, 2xx included
AnalysisOutcomes(r) == Outcomes(r, AnalysisFailures \cup {RespOk(FallbackBody)})

AnalysisRequest(k, c, withSpinner) ==
  [scope |-> k, conv |-> c, withSpinner |-> withSpinner, phase |-> "sent", resp |-> NoResp]

NewClosure == [isCancelled |-> FALSE, timeout |-> 0]

\* clearTimeout(id)
clearTimeoutNoop(tms, id) == tms
clearTimeout(tms, id) == {t \in tms : t.id # id}

\* setTimeout returns an id that no live timeout has and no closure still holds
FreshTimeoutId(tms, cls) ==
  LET used == {t.id : t \in tms} \cup {cls[k].timeout : k \in 1..Len(cls)}
  IN CHOOSE i \in 1..(Cardinality(used) + 1) : i \notin used

\* history: what the step did.  kind names the step; scope is the scope it ran
\* in; fetched tells that it issued an analysis fetch; scheduled is the number of
\* timeouts it set; cancelled tells that the scope was cancelled before the step
AnalysisEvent(kind, k, fetched, scheduled, cancelled) ==
  [kind |-> kind, scope |-> k, fetched |-> fetched, scheduled |-> scheduled,
   cancelled |-> cancelled, cleared |-> 0]

\* history: the step of event e took the live timeouts gone out of the timer table
Cleared(e, gone) == [e EXCEPT !.cleared = Cardinality(gone)]

\* the effect's cleanup: return () => { isCancelled = true; if (timeout) clearTimeout(timeout) }
CleanupClosuresNoop(cls, k) == cls
CleanupClosures(cls, k) == IF k = 0 THEN cls ELSE [cls EXCEPT ![k].isCancelled = TRUE]
CleanupTimeouts(tms, cls, k) ==
  IF k = 0 \/ cls[k].timeout = 0 THEN tms ELSE clearTimeout(tms, cls[k].timeout)

\* the effect, deps [conversationId]: the cleanup of the previous run, then the
\* body with conversationId c, up to the await of fetchAnalysis(true)
AnalysisEffect(kind, c) ==
  /\ c # NullV => Len(closures) < MaxScopes
  /\ conversationId' = c
  /\ status' = NullStatus
  /\ error' = NullV
  /\ isLoading' = (c # NullV)
  /\ timeouts' = CleanupTimeouts(timeouts, closures, scope)
  /\ closures' = IF c = NullV THEN CleanupClosures(closures, scope)
                 ELSE Append(CleanupClosures(closures, scope), NewClosure)
  /\ scope' = IF c = NullV THEN 0 ELSE Len(closures) + 1
  /\ analysisReqs' = IF c = NullV THEN analysisReqs
                     ELSE analysisReqs \cup {AnalysisRequest(Len(closures) + 1, c, TRUE)}
  /\ aev' = Cleared(AnalysisEvent(kind, IF c = NullV THEN 0 ELSE Len(closures) + 1,
                                   c # NullV, 0, FALSE),
                     timeouts \ CleanupTimeouts(timeouts, closures, scope))
  /\ UNCHANGED viewLog

pageIdle == UNCHANGED <<pageVars, routeVars>>

\* AnalysisContent mounts with conversationId c (NullV: without the parameter)
OpenAnalysis(c) ==
  /\ ~aMounted
  /\ aMounted' = TRUE
  /\ AnalysisEffect("mount", c)
  /\ UNCHANGED artifacts

\* the page is opened by its URL
MountAnalysis(c) == OpenAnalysis(c) /\ pageIdle

\* canViewAnalysis
canViewAnalysis ==
  ~session.null /\ session.obj["conversationId"] \notin {Absent, NullV}

\* the company page's link to analysisHref: the company page is left and the
\* analysis page opens with the view's conversationId
ViewAnalysis ==
  /\ canViewAnalysis
  /\ LeavePage("view")
  /\ OpenAnalysis(session.obj["conversationId"])
  /\ UNCHANGED routeVars

\* the conversationId of the URL changes while the page is mounted
ChangeConversation(c) ==
  /\ aMounted /\ c # conversationId
  /\ AnalysisEffect("change", c)
  /\ UNCHANGED <<aMounted, artifacts>>
  /\ pageIdle

\* the page is left: the effect's cleanup runs and the instance's state is discarded
UnmountAnalysis ==
  /\ aMounted
  /\ aMounted' = FALSE
  /\ conversationId' = NullV
  /\ status' = NullStatus
  /\ error' = NullV
  /\ isLoading' = FALSE
  /\ timeouts' = CleanupTimeouts(timeouts, closures, scope)
  /\ closures' = CleanupClosures(closures, scope)
  /\ scope' = 0
  /\ aev' = Cleared(AnalysisEvent("unmount", 0, FALSE, 0, FALSE),
                     timeouts \ CleanupTimeouts(timeouts, closures, scope))
  /\ UNCHANGED <<analysisReqs, artifacts, viewLog>>
  /\ pageIdle

\* a timeout fires: () => fetchAnalysis(false), up to the await
retryFires(t) ==
  /\ t \in timeouts
  /\ timeouts' = timeouts \ {t}
  /\ analysisReqs' = analysisReqs \cup {AnalysisRequest(t.scope, t.conv, FALSE)}
  /\ aev' = AnalysisEvent("retry", t.scope, TRUE, 0, closures[t.scope].isCancelled)
  /\ UNCHANGED <<aMounted, conversationId, status, isLoading, error, scope, closures,
                 artifacts, viewLog>>
  /\ pageIdle

\* fetchAnalysis: if (!response.ok || !payload) throw new Error(...)
PayloadRejectedNever(resp, payload) == FALSE
PayloadRejected(resp, payload) == ~resp.ok \/ payload.null

\* fetchAnalysis: if (normalized.status === "pending") timeout = setTimeout(...)
RetryAlways(normalized) == TRUE
RetryNever(normalized) == FALSE
ShouldRetry(normalized) == normalized.status = "pending"

\* history: the view of conversation c shows status value st
Shown(log, c, st) ==
  [log EXCEPT ![c] =
     [ready |-> @.ready \/ st = "ready",
      pendings |-> IF st = "pending" /\ @.pendings < PendingCap
                   THEN @.pendings + 1 ELSE @.pendings]]

\* fetchAnalysis from its await on
fetchAnalysisResume(r, resp) ==
  /\ r \in analysisReqs
  /\ resp \in AnalysisOutcomes(r)
  /\ analysisReqs' = analysisReqs \ {r}
  /\ LET k == r.scope
         isCancelled == closures[k].isCancelled
         payload == parseJsonSafe(resp)
         thrown == resp.net = "throw" \/ PayloadRejected(resp, payload)
         message == IF resp.net = "throw" THEN NetworkErrorText
                    ELSE ErrorText(payload, "Unable to load analysis.")
         normalized == normalizeResponse(payload.obj)
         cleared == IF closures[k].timeout # 0
                    THEN clearTimeout(timeouts, closures[k].timeout) ELSE timeouts
         pending == ShouldRetry(normalized)
         id == FreshTimeoutId(cleared, closures)
         kind == IF ResponseFailed(resp) THEN "analysis_fail" ELSE "analysis_ok"
     IN /\ isLoading' = IF ~isCancelled /\ r.withSpinner THEN FALSE ELSE isLoading
        /\ IF thrown
           THEN /\ error' = IF isCancelled THEN error ELSE message
                /\ aev' = AnalysisEvent(kind, k, FALSE, 0, isCancelled)
                /\ UNCHANGED <<status, timeouts, closures, viewLog>>
           ELSE IF isCancelled
           THEN /\ aev' = AnalysisEvent(kind, k, FALSE, 0, TRUE)
                /\ UNCHANGED <<status, error, timeouts, closures, viewLog>>
           ELSE /\ status' = [null |-> FALSE, obj |-> normalized]
                /\ viewLog' = Shown(viewLog, r.conv, normalized.status)
                /\ error' = NullV
                /\ timeouts' = IF pending
                               THEN cleared \cup {[id |-> id, scope |-> k, conv |-> r.conv,
                                                   ms |-> RETRY_DELAY_MS]}
                               ELSE cleared
                /\ closures' = [closures EXCEPT ![k].timeout = IF pending THEN id ELSE 0]
                /\ aev' = Cleared(AnalysisEvent(kind, k, FALSE, IF pending THEN 1 ELSE 0, FALSE),
                                   timeouts \ cleared)
  /\ UNCHANGED <<aMounted, conversationId, scope, artifacts>>
  /\ pageIdle

\* GET /api/interviews/{conversation_id}/analysis
BackendGetAnalysis(r) ==
  /\ r \in analysisReqs /\ r.phase = "sent"
  /\ \E body \in (IF artifacts[r.conv] = "ready" THEN {ReadyBody(r.conv)}
                   ELSE PendingBodies(r.conv)) :
       analysisReqs' = (analysisReqs \ {r}) \cup {Answered(r, RespOk(body))}
  /\ aev' = AnalysisEvent("env", 0, FALSE, 0, FALSE)
  /\ UNCHANGED <<aMounted, conversationId, status, isLoading, error, scope, closures,
                 timeouts, artifacts, viewLog>>
  /\ pageIdle

\* the analysis of the finished conversation c is written: pending becomes ready,
\* for good
AnalysisWritten(c) ==
  /\ artifacts[c] = "pending"
  /\ \E sid \in SessionIds : ConvOf(sid) = c /\ backend[sid].status = "bot_completed"
  /\ artifacts' = [artifacts EXCEPT ![c] = "ready"]
  /\ aev' = AnalysisEvent("env", 0, FALSE, 0, FALSE)
  /\ UNCHANGED <<aMounted, conversationId, status, isLoading, error, scope, closures,
                 timeouts, analysisReqs, viewLog>>
  /\ pageIdle

AnalysisInit ==
  /\ aMounted = FALSE
  /\ conversationId = NullV
  /\ status = NullStatus
  /\ isLoading = FALSE
  /\ error = NullV
  /\ scope = 0
  /\ closures = <<>>
  /\ timeouts = {}
  /\ analysisReqs = {}
  /\ artifacts = [c \in ConversationIds |-> "pending"]
  /\ aev = AnalysisEvent("init", 0, FALSE, 0, FALSE)
  /\ viewLog = [c \in ConversationIds |-> [ready |-> FALSE, pendings |-> 0]]

\* no request has reached a route handler
RouteInit ==
  /\ inbound = <<>>
  /\ upstreamReqs = <<>>
  /\ outbox = <<>>

(***************************************************************************)
(* The route handlers and lib/backend.ts.  A JSON text is modelled by the   *)
(* value it parses to and by whether it is the text JSON.stringify writes   *)
(* for that value; a text that does not parse has no value.                 *)
(***************************************************************************)
JsonNull == [null |-> TRUE, obj |-> EmptyObj]
JsonObj(o) == [null |-> FALSE, obj |-> o]

NoText == [present |-> FALSE, valid |-> FALSE, value |-> JsonNull, canonical |-> TRUE]
InvalidText == [present |-> TRUE, valid |-> FALSE, value |-> JsonNull, canonical |-> FALSE]
JsonText(v, canonical) ==
  [present |-> TRUE, valid |-> TRUE, value |-> v, canonical |-> canonical]

\* JSON.parse / request.json() / response.json() of a text that parses
JsonParse(text) == text.value
\* JSON.stringify / the body NextResponse.json writes
JsonStringify(v) == JsonText(v, TRUE)

\* encodeURIComponent: the ids with a reserved character and their escaped form
Escapes == [s \in {"conv x"} |-> "conv%20x"]
encodeURIComponent(s) == IF s \in DOMAIN Escapes THEN Escapes[s] ELSE s

\* the body handleCreateSession sends
CreatePayload == JsonObj([companySlug |-> "acme", interviewType |-> "Behavioral"])

\* what reaches the create route as a body: the payload as JSON.stringify wrote
\* it or spaced otherwise, the JSON null, a text that is not JSON, no body
CreateTexts ==
  {JsonText(CreatePayload, TRUE), JsonText(CreatePayload, FALSE), JsonText(JsonNull, TRUE),
   InvalidText, NoText}

\* params.sessionId of the start route: a session id of the backend, or empty
StartParams == {Sid(1), ""}
\* params.conversationId of the analysis route: the page sends what the URL's
\* query holds
AnalysisParams == {ConvOf(Sid(1)), "conv x", ""}

\* what the backend can answer: a status, and a body that is the JSON of a
\* session, of an error detail or of null, written compactly or not, or a body
\* that is not JSON
UpstreamStatuses == {200, 404, 500}
UpstreamValues ==
  {JsonObj([EmptyObj EXCEPT !["sessionId"] = Sid(1), !["status"] = "room_created"]),
   JsonObj(DetailBody("Session not found")), JsonNull}
UpstreamTexts ==
  {JsonText(v, TRUE) : v \in UpstreamValues}
    \cup {JsonText(JsonObj(DetailBody("Session not found")), FALSE), InvalidText}

NoOutcome == [kind |-> "none", status |-> 0, text |-> NoText]
UpstreamAnswer(st, text) == [kind |-> "answer", status |-> st, text |-> text]
\* fetch rejects: the backend refuses the connection
UpstreamThrow == [kind |-> "throw", status |-> 0, text |-> NoText]

\* a handler invocation: the request, and where its handler stands (fetching:
\* at the await of fetch; settled: the fetch has an outcome; done: returned)
Invocation(route, method, param, text, phase, silent) ==
  [route |-> route, method |-> method, param |-> param, text |-> text,
   phase |-> phase, silent |-> silent, up |-> NoOutcome]

\* NextResponse.json(body, { status })
JsonResponse(id, st, body, details) ==
  [id |-> id, kind |-> "response", status |-> st, text |-> JsonStringify(body),
   details |-> details]
\* the handler's promise rejects: the caller gets no response of the handler
Rejection(id, details) ==
  [id |-> id, kind |-> "exception", status |-> 0, text |-> NoText, details |-> details]

MessageBody(msg) == JsonObj([EmptyObj EXCEPT !["message"] = msg])

\* the handler returns 400 before any fetch
Reject400AfterFetch(inv, msg) ==
  /\ Len(inbound) < MaxInbound
  /\ inbound' = Append(inbound, [inv EXCEPT !.phase = "done"])
  /\ outbox' = Append(outbox, JsonResponse(Len(inbound) + 1, 400, MessageBody(msg), Absent))
  /\ upstreamReqs' = Append(upstreamReqs,
                            [id |-> Len(inbound) + 1, method |-> inv.method, path |-> "",
                             contentType |-> Absent, body |-> inv.text])
Reject400(inv, msg) ==
  /\ Len(inbound) < MaxInbound
  /\ inbound' = Append(inbound, [inv EXCEPT !.phase = "done"])
  /\ outbox' = Append(outbox, JsonResponse(Len(inbound) + 1, 400, MessageBody(msg), Absent))
  /\ UNCHANGED upstreamReqs

\* forwardToBackend(path, init) up to its await of fetch; the backend answers
\* or refuses in the end, or stays silent
Forward(inv, method, path, contentType, body) ==
  /\ Len(inbound) < MaxInbound
  /\ \E silent \in BOOLEAN :
       inbound' = Append(inbound, [inv EXCEPT !.phase = "fetching", !.silent = silent])
  /\ upstreamReqs' = Append(upstreamReqs,
                            [id |-> Len(inbound) + 1, method |-> method, path |-> path,
                             contentType |-> contentType, body |-> body])
  /\ UNCHANGED outbox

routesIdle == UNCHANGED <<pageVars, analysisVars>>

\* POST /api/interview-sessions
CreateRoutePOST(text) ==
  /\ LET inv == Invocation("create", "POST", "", text, "arrived", FALSE)
     IN IF ~text.valid
        THEN Reject400(inv, "Invalid JSON payload")
        ELSE Forward(inv, "POST", "/api/sessions", "application/json",
                     JsonStringify(JsonParse(text)))
  /\ routesIdle

\* POST /api/interview-sessions/[sessionId]/start
StartRoutePOST(sessionId) ==
  /\ LET inv == Invocation("start", "POST", sessionId, NoText, "arrived", FALSE)
     IN IF sessionId = ""
        THEN Reject400(inv, "Session ID is required")
        ELSE Forward(inv, "POST", "/api/sessions/" \o sessionId \o "/start", Absent, NoText)
  /\ routesIdle

\* GET /api/interview-analysis/[conversationId]; fetch without init sends a GET
AnalysisRouteGET(cid) ==
  /\ LET inv == Invocation("analysis", "GET", cid, NoText, "arrived", FALSE)
     IN IF cid = ""
        THEN Reject400(inv, "conversationId is required")
        ELSE Forward(inv, "GET",
                     "/api/interviews/" \o encodeURIComponent(cid) \o "/analysis",
                     Absent, NoText)
  /\ routesIdle

\* the backend answers the forwarded request, or refuses the connection
UpstreamSettles(id, outcome) ==
  /\ id \in 1..Len(inbound)
  /\ inbound[id].phase = "fetching" /\ ~inbound[id].silent
  /\ inbound' = [inbound EXCEPT ![id].phase = "settled", ![id].up = outcome]
  /\ UNCHANGED <<upstreamReqs, outbox>>
  /\ routesIdle

\* the runtime gives up on a backend that stays silent and rejects the fetch:
\* forwardToBackend sets no timeout and passes no signal, so whether this ever
\* happens is the runtime's choice
FetchGivenUp(id) ==
  /\ id \in 1..Len(inbound)
  /\ inbound[id].phase = "fetching" /\ inbound[id].silent
  /\ inbound' = [inbound EXCEPT ![id].phase = "settled", ![id].up = UpstreamThrow]
  /\ UNCHANGED <<upstreamReqs, outbox>>
  /\ routesIdle

UpstreamOutcomes ==
  {UpstreamThrow} \cup {UpstreamAnswer(st, text) : st \in UpstreamStatuses, text \in UpstreamTexts}

\* parseJsonResponse
parseJsonResponseAlwaysFallback(text) == MessageBody("Unexpected backend response")
parseJsonResponse(text) ==
  IF text.valid THEN JsonParse(text) ELSE MessageBody("Unexpected backend response")

\* the catch of a route handler
RouteCatchRethrow(id) == Rejection(id, "fetch failed")
RouteCatch(id) ==
  JsonResponse(id, 502, MessageBody("Unable to reach backend service"), "fetch failed")

\* the handler from the await of forwardToBackend on
RouteResume(id) ==
  /\ id \in 1..Len(inbound)
  /\ inbound[id].phase = "settled"
  /\ inbound' = [inbound EXCEPT ![id].phase = "done"]
  /\ outbox' = Append(outbox,
                      IF inbound[id].up.kind = "throw" THEN RouteCatch(id)
                      ELSE JsonResponse(id, inbound[id].up.status,
                                        parseJsonResponse(inbound[id].up.text), Absent))
  /\ UNCHANGED upstreamReqs
  /\ routesIdle

NextRoutes ==
  \/ \E text \in CreateTexts : CreateRoutePOST(text)
  \/ \E sessionId \in StartParams : StartRoutePOST(sessionId)
  \/ \E cid \in AnalysisParams : AnalysisRouteGET(cid)
  \/ \E id \in 1..Len(inbound) : \E outcome \in UpstreamOutcomes : UpstreamSettles(id, outcome)
  \/ \E id \in 1..Len(inbound) : FetchGivenUp(id)
  \/ \E id \in 1..Len(inbound) : RouteResume(id)

FreshPage ==
  /\ selectedInterview = 0
  /\ session = NullSession
  /\ isCreatingSession = FALSE
  /\ isStartingBot = FALSE
  /\ errorMessage = NullV
  /\ timers = {}
  /\ intervalId = 0
  /\ statusReqs = <<>>
  /\ controlReqs = {}
  /\ epoch = 0
  /\ terminalSeen = {}
  /\ ev = Event("init", Absent, FALSE)

AllAnalysisResponses ==
  AnalysisFailures \cup {RespOk(FallbackBody)} \cup {r.resp : r \in analysisReqs}

AllResponses ==
  StatusFailures \cup ControlFailures \cup {RespOk(FallbackBody)}
    \cup {r.resp : r \in controlReqs} \cup {statusReqs[i].resp : i \in 1..Len(statusReqs)}

Next ==
  \/ \E i \in 0..(NumInterviews - 1) : SelectInterview(i)
  \/ handleCreateSession
  \/ \E r \in controlReqs : \E resp \in AllResponses : handleCreateSessionResume(r, resp)
  \/ handleStartBot
  \/ \E r \in controlReqs : \E resp \in AllResponses : handleStartBotResume(r, resp)
  \/ \E t \in timers : poll(t)
  \/ \E i \in 1..Len(statusReqs) : \E resp \in AllResponses : fetchSessionStatusResume(i, resp)
  \/ Unmount
  \/ \E r \in controlReqs : BackendCreateSession(r)
  \/ \E r \in controlReqs : BackendStartAgent(r)
  \/ \E i \in 1..Len(statusReqs) : BackendGetStatus(i)
  \/ \E i \in 1..Len(statusReqs) : BackendUnknownStatus(i)
  \/ \E sid \in SessionIds : AgentAdvances(sid)

NextAnalysis ==
  \/ \E c \in ConversationIds \cup {NullV} : MountAnalysis(c)
  \/ \E c \in ConversationIds \cup {NullV} : ChangeConversation(c)
  \/ UnmountAnalysis
  \/ \E t \in timeouts : retryFires(t)
  \/ \E r \in analysisReqs : \E resp \in AllAnalysisResponses : fetchAnalysisResume(r, resp)
  \/ \E r \in analysisReqs : BackendGetAnalysis(r)
  \/ \E c \in ConversationIds : AnalysisWritten(c)

\* the company page just mounted, no session created yet
PageInit ==
  /\ mounted = TRUE
  /\ FreshPage
  /\ backend = [sid \in SessionIds |-> NoBackendSession]

\* a flow from the company page to the analysis of the session it ran
NextFlow ==
  \/ Next
  \/ ViewAnalysis
  \/ UnmountAnalysis
  \/ \E t \in timeouts : retryFires(t)
  \/ \E r \in analysisReqs : \E resp \in AllAnalysisResponses : fetchAnalysisResume(r, resp)
  \/ \E r \in analysisReqs : BackendGetAnalysis(r)
  \/ \E c \in ConversationIds : AnalysisWritten(c)

Init ==
  /\ PageInit /\ AnalysisInit /\ RouteInit
  /\ limits = [rooms |-> MaxRooms, inflight |-> MaxInFlight, control |-> MaxControl]

InitSwitch ==
  /\ PageInit /\ AnalysisInit /\ RouteInit
  /\ limits = [rooms |-> SwitchRooms, inflight |-> SwitchInFlight, control |-> SwitchControl]

\* the analysis page opened by its URL after the sessions have finished, no
\* company page
InitAnalysis ==
  /\ mounted = FALSE
  /\ FreshPage
  /\ backend = [sid \in SessionIds |-> [status |-> "bot_completed", launches |-> 1]]
  /\ AnalysisInit /\ RouteInit
  /\ limits = [rooms |-> 0, inflight |-> 0, control |-> 0]

InitFlow ==
  /\ PageInit /\ AnalysisInit /\ RouteInit
  /\ limits = [rooms |-> FlowRooms, inflight |-> FlowInFlight, control |-> FlowControl]

\* the truthy payloads of a 2xx analysis response: each of the four fields the
\* page reads is absent, null or a value; a payload that is not an object reads
\* as the object without fields
AnalysisPayloads ==
  {[EmptyObj EXCEPT !["conversation_id"] = i, !["status"] = s,
                    !["updated_at"] = u, !["analysis"] = a] :
     i \in {Absent, ConvOf(Sid(1)), ConvOf(Sid(2))},
     s \in {Absent, "pending", "ready", "failed"},
     u \in {Absent, NullV, "t0"},
     a \in {Absent, NullV, "report"}}

\* the page mounted with a conversationId, its first fetch answered with any payload
InitNormalize ==
  /\ mounted = FALSE
  /\ FreshPage
  /\ backend = [sid \in SessionIds |-> [status |-> "bot_completed", launches |-> 1]]
  /\ limits = [rooms |-> 0, inflight |-> 0, control |-> 0]
  /\ RouteInit
  /\ aMounted = TRUE
  /\ conversationId = ConvOf(Sid(1))
  /\ status = NullStatus
  /\ isLoading = TRUE
  /\ error = NullV
  /\ scope = 1
  /\ closures = <<NewClosure>>
  /\ timeouts = {}
  /\ \E payload \in AnalysisPayloads :
       analysisReqs = {Answered(AnalysisRequest(1, ConvOf(Sid(1)), TRUE), RespOk(payload))}
  /\ artifacts = [c \in ConversationIds |-> "pending"]
  /\ aev = AnalysisEvent("mount", 1, TRUE, 0, FALSE)
  /\ viewLog = [c \in ConversationIds |-> [ready |-> FALSE, pendings |-> 0]]

NextNormalize ==
  \/ \E r \in analysisReqs : \E resp \in AllAnalysisResponses : fetchAnalysisResume(r, resp)
  \/ \E t \in timeouts : retryFires(t)
  \/ \E r \in analysisReqs : BackendGetAnalysis(r)
  \/ \E c \in ConversationIds : AnalysisWritten(c)
  \/ UnmountAnalysis

\* normalizeResponse applied to every payload
SpecNormalize == InitNormalize /\ [][NextNormalize]_vars

\* the route handlers alone, no page open
SpecRoutes == InitAnalysis /\ [][NextRoutes]_vars

\* the route handlers where a fetch that has an outcome resumes its handler and a
\* backend that is not silent answers or refuses in the end
SpecRoutesLive ==
  /\ SpecRoutes
  /\ \A id \in 1..MaxInbound :
       /\ WF_vars(RouteResume(id))
       /\ WF_vars(\E outcome \in UpstreamOutcomes : UpstreamSettles(id, outcome))

\* renderContent: which card the analysis page shows
renderContent ==
  IF conversationId = NullV THEN "no_conversation"
  ELSE IF isLoading /\ status.null THEN "loader"
  ELSE IF error # NullV THEN "error"
  ELSE IF status.null THEN "nothing"
  ELSE IF status.obj.status = "pending" THEN "pending"
  ELSE IF ~(status.obj.status = "ready" /\ status.obj.analysis # NullV) THEN "no_data"
  ELSE "report"

\* one session, overlapping status fetches
Spec == Init /\ [][Next]_vars

\* two sessions, one status fetch at a time
SpecSwitch == InitSwitch /\ [][Next]_vars

\* the analysis page
SpecAnalysis == InitAnalysis /\ [][NextAnalysis]_vars

\* one session, from its creation to its analysis
SpecFlow == InitFlow /\ [][NextFlow]_vars

\* an answered analysis fetch completes with the answer it was given
AnswerDelivered == \E r \in analysisReqs : r.phase = "answered" /\ fetchAnalysisResume(r, r.resp)

\* the analysis page alone, where a due timeout fires, the backend answers every
\* fetch it was sent, every answer arrives and every finished conversation's
\* analysis is written in the end
SpecAnalysisLive ==
  /\ SpecAnalysis
  /\ WF_vars(\E t \in timeouts : retryFires(t))
  /\ WF_vars(\E r \in analysisReqs : BackendGetAnalysis(r))
  /\ WF_vars(AnswerDelivered)
  /\ WF_vars(\E c \in ConversationIds : AnalysisWritten(c))

\* statusDescription
statusDescription ==
  IF session.null THEN NullV
  ELSE IF SESSION_STATUS_LABELS(StatusOf(session)) # Absent
       THEN SESSION_STATUS_LABELS(StatusOf(session))
       ELSE "Updating session..."

(***************************************************************************)
(* Properties of the status polling client.                                *)
(***************************************************************************)
Pollable == {"bot_starting", "bot_running", "bot_stopping"}
Terminal == {"bot_completed", "bot_error"}

\* C1: once the view has held bot_completed or bot_error for a session, no step
\* issues another status fetch for that session.
C1_NoFetchAfterTerminal == [][ev'.fetched \notin terminalSeen]_vars

C3_TimerScope ==
  [][/\ Cardinality(timers') <= 1
     /\ \A t \in timers' :
          /\ mounted' /\ ~session'.null
          /\ StatusOf(session') \in Pollable
          /\ t.sid = SidOf(session')
     /\ (selectedInterview' # selectedInterview \/ SidOf(session') # SidOf(session)
           \/ (mounted /\ ~mounted'))
        => timers \cap timers' = {}
     /\ ev'.kind = "tick"
        => /\ mounted /\ ev'.fetched = SidOf(session)
           /\ \E t \in timers : t.sid = ev'.fetched]_vars

C3_Witness ==
  /\ ev.kind = "create_ok" /\ SidOf(session) = "s2" /\ timers = {}
  /\ backend["s1"].status \in Pollable
  /\ \E i \in 1..Len(statusReqs) : statusReqs[i].sid = "s1"

\* C4: the response of a status fetch that a newer fetch of the same session has
\* superseded is discarded: it leaves the view as the newer response made it.
C4_StaleResponseDiscarded ==
  [][(ev'.kind = "status_ok" /\ ev'.stale) => session' = session]_vars

StatusRank(st) ==
  CASE st = "room_created" -> 1
    [] st = "bot_starting" -> 2
    [] st = "bot_running" -> 3
    [] st = "bot_stopping" -> 4
    [] st = "bot_completed" -> 5
    [] OTHER -> 0

\* C5: for one sessionId the view's status never moves backwards in the order
\* room_created < bot_starting < bot_running < bot_stopping < bot_completed, except
\* to bot_error, and never leaves a terminal status for a non-terminal one.
C5_StatusMonotone ==
  [][(~session.null /\ ~session'.null /\ SidOf(session) = SidOf(session')
        /\ StatusOf(session) \in KnownStatuses /\ StatusOf(session') \in KnownStatuses)
     => /\ StatusOf(session') = "bot_error"
           \/ StatusRank(StatusOf(session')) >= StatusRank(StatusOf(session))
        /\ StatusOf(session) \in Terminal => StatusOf(session') \in Terminal]_vars

\* C6: while the mounted page's view holds a status string outside the six known
\* values, the interval is running and the description is "Updating session...".
C6_UnknownStatusPolled ==
  (mounted /\ SidOf(session) # Absent
     /\ StatusOf(session) \notin KnownStatuses \cup {Absent})
  => (timers # {} /\ statusDescription = "Updating session...")

\* C7: a failed status fetch leaves the view, the error message and the interval
\* as they were.
C7_StatusFailureSwallowed ==
  [][ev'.kind = "status_fail"
     => session' = session /\ errorMessage' = errorMessage /\ timers' = timers]_vars

C7_Witness ==
  /\ ev.kind = "status_fail" /\ timers # {} /\ StatusOf(session) \in Pollable

\* C8 as stated: every polling loop continues after a failed fetch.  A failed
\* status fetch leaves the interval of a polling page running, and a failed
\* analysis fetch of a scope that is not cancelled leaves a retry timeout or a
\* fetch of that scope outstanding.
C8_EveryLoopContinues ==
  [][/\ (ev'.kind = "status_fail" /\ timers # {}) => timers' # {}
     /\ (aev'.kind = "analysis_fail" /\ ~aev'.cancelled)
        => \/ \E t \in timeouts' : t.scope = aev'.scope
           \/ \E r \in analysisReqs' : r.scope = aev'.scope]_vars

\* C8 amended: the status loop continues after a failed fetch and the analysis
\* loop ends with it.  A failed status fetch leaves the interval of a polling page
\* as it was; a failed analysis fetch of a scope that is not cancelled sets the
\* error and leaves no retry timeout and no fetch of that scope; and while the
\* error is shown the scope has no timeout and no fetch, so it issues none.
C8_StatusLoopContinuesAnalysisLoopEnds ==
  [][/\ (ev'.kind = "status_fail" /\ timers # {}) => (timers' = timers /\ session' = session)
     /\ (aev'.kind = "analysis_fail" /\ ~aev'.cancelled)
        => /\ error' # NullV
           /\ ~\E t \in timeouts' : t.scope = aev'.scope
           /\ ~\E r \in analysisReqs' : r.scope = aev'.scope
     /\ (aMounted' /\ error' # NullV)
        => /\ ~\E t \in timeouts' : t.scope = scope'
           /\ ~\E r \in analysisReqs' : r.scope = scope']_vars

C8_Witness ==
  /\ aev.kind = "analysis_fail" /\ ~aev.cancelled /\ aMounted
  /\ error = "Analysis not found"
  /\ closures[aev.scope].timeout # 0
  /\ terminalSeen # {}

\* C9: after a successful status fetch every field the response has holds the
\* response's value in the view, and every other field is as it was before.
C9_MergeFieldwise ==
  [][\A i \in 1..Len(statusReqs) : \A resp \in AllResponses :
       (mounted /\ ~ResponseFailed(resp) /\ fetchSessionStatusResume(i, resp))
       => /\ ~session'.null
          /\ \A f \in JsonFields :
               session'.obj[f] = IF resp.obj[f] # Absent THEN resp.obj[f]
                                 ELSE session.obj[f]]_vars

C9_Witness ==
  /\ ev.kind = "status_ok"
  /\ session.obj["lastError"] = "agent failed" /\ StatusOf(session) = "bot_running"

(***************************************************************************)
(* Properties of the analysis retrieval loop.                              *)
(***************************************************************************)
\* C10: every scope has at most one retry timeout outstanding and none while one
\* of its fetches is in flight; a step sets a timeout only by applying a
\* successful response whose normalized status is pending, and then it sets
\* exactly one, for the scope of the response, with a delay of 5000 ms.
C10_OneRetryTimer ==
  [][/\ \A k \in 1..Len(closures') :
          /\ Cardinality({t \in timeouts' : t.scope = k}) <= 1
          /\ (\E t \in timeouts' : t.scope = k) => ~\E r \in analysisReqs' : r.scope = k
     /\ timeouts' \ timeouts # {}
        => /\ aev'.kind = "analysis_ok"
           /\ ~status'.null /\ status'.obj.status = "pending"
           /\ \E t \in timeouts' :
                timeouts' \ timeouts = {t} /\ t.scope = aev'.scope /\ t.ms = 5000
     /\ (aev'.kind = "analysis_ok" /\ ~aev'.cancelled /\ status'.obj.status = "pending")
        => Cardinality(timeouts' \ timeouts) = 1]_vars

C10_Witness ==
  /\ aev.kind = "analysis_ok" /\ aev.scheduled = 1
  /\ \E t \in timeouts : t.scope = scope /\ t.id > 1 /\ closures[scope].timeout = t.id

\* the view of the mounted page shows status value st
ViewShows(st) == aMounted /\ ~status.null /\ status.obj.status = st

\* the current scope has a retry timeout or a fetch outstanding
ScopeActive ==
  \/ \E t \in timeouts : t.scope = scope
  \/ \E r \in analysisReqs : r.scope = scope

\* C11: the view of a conversation never shows pending once it has shown ready;
\* a view that shows ready stays as it is while the page stays on the conversation;
\* the view only moves from null or pending to pending or ready; and while the
\* view shows ready its scope has no retry timeout and no fetch.
C11_ReadyIsFinal ==
  [][/\ (aMounted' /\ ~status'.null /\ status'.obj.status = "pending")
        => ~viewLog[conversationId'].ready
     /\ (ViewShows("ready") /\ aMounted' /\ conversationId' = conversationId)
        => status' = status
     /\ (aMounted' /\ ~status'.null /\ status' # status
           /\ status'.obj.status \in {"pending", "ready"})
        => (status.null \/ status.obj.status = "pending")
     /\ (aMounted' /\ ~status'.null /\ status'.obj.status = "ready")
        => /\ ~\E t \in timeouts' : t.scope = scope'
           /\ ~\E r \in analysisReqs' : r.scope = scope']_vars

C11_Witness ==
  /\ ViewShows("ready") /\ aev.kind = "analysis_ok" /\ ~ScopeActive
  /\ viewLog[conversationId].pendings = 2 /\ viewLog[conversationId].ready
  /\ Len(closures) = 1

\* the scope k is the mounted page's and has a fetch or a retry timeout outstanding
ScopeRunning(k) ==
  /\ aMounted /\ scope = k
  /\ \/ \E t \in timeouts : t.scope = k
     \/ \E r \in analysisReqs : r.scope = k

\* the scope k is over otherwise than by a ready view: it was cancelled (unmount
\* or another conversationId), one of its fetches failed, or an answer was
\* applied that carries no status at all
ScopeGaveUp(k) ==
  \/ scope # k
  \/ aev.kind = "analysis_fail" /\ aev.scope = k
  \/ ~status.null /\ status.obj.status = Absent

\* C12: when timeouts fire, fetches complete and the backend writes the analysis
\* in the end, a scope that is fetching or waiting to retry reaches a view with
\* status ready, unless it is cancelled or one of its fetches fails first.
C12_EventuallyReady ==
  \A k \in 1..MaxScopes :
     ScopeRunning(k) ~> ((scope = k /\ ViewShows("ready")) \/ ScopeGaveUp(k))

\* the view became ready by a retry, after one pending answer in the only scope
C12_Witness ==
  /\ ViewShows("ready") /\ ~ScopeActive /\ Len(closures) = 1
  /\ viewLog[conversationId].pendings = 1
  /\ aev.kind = "analysis_ok" /\ aev.scope = scope
  /\ ~\E r \in analysisReqs : TRUE

\* the messages a failed analysis fetch can leave in the error field
AnalysisErrorMessages ==
  {"Analysis not found", FallbackBody["message"], UnreachableBody["message"],
   "Unable to load analysis.", NetworkErrorText}

\* C13: a failed analysis fetch of the mounted scope (rejected fetch, non-2xx
\* status, body that is not JSON) sets the error to a message and the page shows
\* the error card and not the pending card, also over an earlier pending status;
\* it sets no timeout and changes neither the status nor the timeouts; and from
\* then on, while the scope stays, the error stays and the scope has no timeout
\* and no fetch.
C13_FailureStopsLoop ==
  [][/\ (aev'.kind = "analysis_fail" /\ ~aev'.cancelled)
        => /\ error' \in AnalysisErrorMessages
           /\ renderContent' = "error"
           /\ aev'.scheduled = 0 /\ aev'.fetched = FALSE
           /\ status' = status /\ timeouts' = timeouts
           /\ ~ScopeActive'
     /\ (aMounted /\ error # NullV /\ scope' = scope)
        => /\ error' = error /\ renderContent' = "error"
           /\ ~ScopeActive'
           /\ aev'.scope # scope]_vars

\* a retry failed after a pending answer: the status is still pending and the
\* page shows the error
C13_Witness ==
  /\ aev.kind = "analysis_fail" /\ ~aev.cancelled /\ aev.scope = scope
  /\ ViewShows("pending") /\ viewLog[conversationId].pendings >= 1
  /\ error = NetworkErrorText /\ renderContent = "error"
  /\ closures[scope].timeout # 0 /\ ~ScopeActive

\* C14: when the conversationId changes, the previous scope is cancelled and its
\* retry timeout is gone, the status and the error are null, and, when there is a
\* new conversationId, its first fetch is issued in the same step by a fresh
\* scope; afterwards the status and the error change only by an answer to a fetch
\* of the current scope, and a status that names a conversation names the
\* current one.
C14_ChangeResets ==
  [][/\ aev'.kind = "change"
        => /\ ~\E t \in timeouts' : t.scope = scope
           /\ scope # 0 => closures'[scope].isCancelled
           /\ status'.null /\ error' = NullV
           /\ conversationId' # NullV
              => /\ scope' \notin {0, scope} /\ ~closures'[scope'].isCancelled
                 /\ closures'[scope'].timeout = 0
                 /\ aev'.fetched /\ isLoading'
                 /\ \E r \in analysisReqs' \ analysisReqs :
                       r.scope = scope' /\ r.conv = conversationId' /\ r.phase = "sent"
           /\ conversationId' = NullV
              => scope' = 0 /\ analysisReqs' = analysisReqs /\ ~isLoading'
     /\ (~status'.null /\ status' # status)
        => /\ aev'.kind = "analysis_ok" /\ aev'.scope = scope' /\ scope' = scope
           /\ status'.obj.conversationId \in {Absent, conversationId'}
     /\ (error' # NullV /\ error' # error)
        => aev'.kind = "analysis_fail" /\ aev'.scope = scope' /\ scope' = scope]_vars

\* the conversationId changed to another conversation while the retry timeout
\* of the previous one, whose view was pending, was waiting
C14_Witness ==
  /\ aev.kind = "change" /\ aev.cleared = 1 /\ aev.fetched
  /\ conversationId # NullV /\ status.null /\ error = NullV /\ timeouts = {}
  /\ \E c \in ConversationIds : c # conversationId /\ viewLog[c].pendings >= 1

\* C15: a fetch that completes, with an answer or a failure, for a scope other
\* than the mounted page's current one (a scope cancelled by an unmount or a
\* change of conversationId) changes none of status, error and isLoading and
\* sets no timeout; a timeout only fires for the current scope; no timeout of
\* another scope is waiting; and every fetch issued belongs to the current scope.
C15_CancelledScopeInert ==
  [][/\ (aev'.kind \in {"analysis_ok", "analysis_fail"} /\ aev'.scope # scope)
        => /\ aev'.cancelled
           /\ status' = status /\ error' = error /\ isLoading' = isLoading
           /\ timeouts' = timeouts /\ closures' = closures
           /\ aev'.scheduled = 0 /\ ~aev'.fetched
     /\ aev'.kind = "retry" => (aev'.scope = scope /\ ~aev'.cancelled /\ aMounted)
     /\ \A tm \in timeouts' : tm.scope = scope' /\ aMounted'
     /\ \A r \in analysisReqs' \ analysisReqs :
          r.phase = "sent" => (r.scope = scope' /\ aMounted')]_vars

\* the pending answer to the first conversation's fetch arrived after the page
\* had moved to the second conversation and shown its ready analysis
C15_Witness ==
  /\ aev.kind = "analysis_ok" /\ aev.cancelled /\ aev.scope # scope
  /\ ViewShows("ready") /\ timeouts = {} /\ analysisReqs = {}
  /\ \E c \in ConversationIds : c # conversationId /\ artifacts[c] = "pending"

\* payload ?? null
OrNull(v) == IF v \in {Absent, NullV} THEN NullV ELSE v

\* C16: whatever payload a successful fetch of the mounted scope delivers (the
\* backend's answer, or the route's fallback object when no answer was recorded), the
\* status it sets has conversationId equal to the payload's conversation_id,
\* status equal to its status, updatedAt equal to its updated_at, and analysis
\* equal to its analysis, or null when that is null or absent.
C16_NormalizeFieldwise ==
  [][(aev'.kind = "analysis_ok" /\ ~aev'.cancelled)
       => \E r \in analysisReqs \ analysisReqs' :
            LET payload == IF r.phase = "answered" THEN r.resp.obj ELSE FallbackBody
            IN /\ ~status'.null
               /\ status'.obj.conversationId = payload["conversation_id"]
               /\ status'.obj.status = payload["status"]
               /\ status'.obj.updatedAt = payload["updated_at"]
               /\ status'.obj.analysis = OrNull(payload["analysis"])
               /\ DOMAIN status'.obj = {"conversationId", "status", "updatedAt", "analysis"}]_vars

\* a ready payload without conversation_id, updated_at and analysis was applied
C16_Witness ==
  /\ aev.kind = "analysis_ok" /\ ~aev.cancelled /\ ViewShows("ready")
  /\ status.obj.conversationId = Absent /\ status.obj.updatedAt = Absent
  /\ status.obj.analysis = NullV

\* the responses returned for the invocation id, and the requests forwarded for it
RepliesTo(id) == {i \in 1..Len(outbox) : outbox[i].id = id}
ForwardsOf(id) == {j \in 1..Len(upstreamReqs) : upstreamReqs[j].id = id}

\* C17: when the backend answered with a body that is not JSON, the route's
\* response is the fallback body {"message": "Unexpected backend response"}
\* with status 502, whatever status the backend sent.
C17_MalformedGives502 ==
  \A id \in 1..Len(inbound) :
     (inbound[id].phase = "done" /\ inbound[id].up.kind = "answer"
        /\ ~inbound[id].up.text.valid)
     => \A i \in RepliesTo(id) :
          /\ outbox[i].kind = "response"
          /\ JsonParse(outbox[i].text) = MessageBody("Unexpected backend response")
          /\ outbox[i].status = 502

\* C18: when the fetch of the backend threw, the route (create, start or
\* analysis) has returned exactly one response, with status 502 and a JSON body
\* whose message is "Unable to reach backend service", and no exception.
C18_UnreachableGives502 ==
  \A id \in 1..Len(inbound) :
     (inbound[id].phase = "done" /\ inbound[id].up.kind = "throw")
     => /\ Cardinality(RepliesTo(id)) = 1
        /\ \A i \in RepliesTo(id) :
             /\ outbox[i].kind = "response"
             /\ outbox[i].status = 502
             /\ outbox[i].text.valid /\ ~JsonParse(outbox[i].text).null
             /\ JsonParse(outbox[i].text).obj["message"] = "Unable to reach backend service"

\* two routes, the start route among them, have answered a refused connection
C18_Witness ==
  /\ Len(inbound) = 2 /\ inbound[1].route # inbound[2].route
  /\ \E id \in 1..2 : inbound[id].route = "start"
  /\ \A id \in 1..2 :
       /\ inbound[id].phase = "done" /\ inbound[id].up.kind = "throw" /\ ~inbound[id].silent
       /\ \E i \in RepliesTo(id) : outbox[i].status = 502

\* C19: every response is a JSON body with an HTTP status, no request gets two,
\* and every request that reached a handler gets one in the end, whatever the
\* backend does: refuse, answer with a body that is not JSON, or stay silent.
C19_AlwaysOneJsonResponse ==
  /\ [](\A i \in 1..Len(outbox) :
          /\ outbox[i].kind = "response" /\ outbox[i].text.valid
          /\ outbox[i].status \in 100..599
          /\ RepliesTo(outbox[i].id) = {i})
  /\ \A id \in 1..MaxInbound : (Len(inbound) >= id) ~> (RepliesTo(id) # {})

\* the path the claim names for the request of an invocation
RewrittenPath(inv) ==
  CASE inv.route = "create" -> "/api/sessions"
    [] inv.route = "start" -> "/api/sessions/" \o inv.param \o "/start"
    [] inv.route = "analysis" -> "/api/interviews/" \o encodeURIComponent(inv.param) \o "/analysis"

\* the request passes the handler's own check
ValidInbound(inv) == IF inv.route = "create" THEN inv.text.valid ELSE inv.param # ""

StartAnswered(r) ==
  /\ r \in controlReqs /\ r.kind = "start" /\ r.phase = "sent"
  /\ ev'.kind \in {"start_launch", "start_repeat", "start_refused"}
  /\ Answered(r, r.resp) \notin controlReqs /\ r \notin controlReqs'

\* C21: a StartAgent call for a session that is bot_starting changes nothing in
\* the session store and is answered with the session's current snapshot, the
\* same sessionId and status bot_starting; no session is ever launched twice.
C21_StartIdempotent ==
  [][/\ \A r \in controlReqs :
          (StartAnswered(r) /\ backend[r.sid].status = "bot_starting")
          => /\ backend' = backend
             /\ ev'.kind = "start_repeat"
             /\ \E a \in controlReqs' \ controlReqs :
                  /\ a.kind = "start" /\ a.sid = r.sid /\ a.phase = "answered"
                  /\ a.resp = RespOk(Snapshot(r.sid, backend[r.sid]))
                  /\ a.resp.obj["sessionId"] = r.sid
     /\ \A sid \in SessionIds : backend'[sid].launches <= 1]_vars

\* a second StartAgent call has just met the session while it is bot_starting,
\* after its first launch
C21_Witness ==
  /\ ev.kind = "start_repeat"
  /\ \E r \in controlReqs :
       /\ r.kind = "start" /\ r.phase = "answered"
       /\ r.resp.obj["status"] = "bot_starting"
       /\ backend[r.sid].status = "bot_starting" /\ backend[r.sid].launches = 1

\* C22: a StartAgent call for a session that is bot_completed or bot_error is
\* answered with an error and changes nothing in the session store: no status
\* change and no launch.
C22_StartAfterTerminalFails ==
  [][\A r \in controlReqs :
       (StartAnswered(r) /\ backend[r.sid].status \in {"bot_completed", "bot_error"})
       => /\ backend' = backend
          /\ ev'.kind = "start_refused"
          /\ \E a \in controlReqs' \ controlReqs :
               /\ a.kind = "start" /\ a.sid = r.sid /\ a.phase = "answered"
               /\ ~a.resp.ok /\ a.resp.obj["detail"] # Absent
               /\ a.resp.obj["status"] = Absent]_vars

\* a StartAgent call has just been refused for a finished session whose view on
\* the page is still room_created
C22_Witness ==
  /\ ev.kind = "start_refused"
  /\ \E r \in controlReqs :
       /\ r.kind = "start" /\ r.phase = "answered" /\ ~r.resp.ok
       /\ backend[r.sid].status = "bot_completed" /\ backend[r.sid].launches = 1
       /\ SidOf(session) = r.sid /\ StatusOf(session) = "room_created"

\* the status changes the lifecycle allows
LifecycleSteps ==
  {<<"none", "room_created">>, <<"room_created", "bot_starting">>,
   <<"bot_starting", "bot_running">>, <<"bot_running", "bot_stopping">>,
   <<"bot_stopping", "bot_completed">>}
    \cup {<<st, "bot_error">> :
            st \in {"room_created", "bot_starting", "bot_running", "bot_stopping"}}

ClaimedMessage(resp, generic) ==
  IF resp.json /\ resp.obj["detail"] \notin {Absent, NullV} THEN resp.obj["detail"]
  ELSE IF resp.json /\ resp.obj["message"] \notin {Absent, NullV} THEN resp.obj["message"]
  ELSE generic

\* the same for a non-2xx response, the exception's own message for a rejected
\* fetch, and the text about an unexpected response for a 2xx body that is not
\* JSON
ShownMessage(resp, generic, unexpected) ==
  IF resp.net = "throw" THEN NetworkErrorText
  ELSE IF ~resp.ok THEN ClaimedMessage(resp, generic)
  ELSE unexpected

\* the failed responses the request r can have completed with
FailuresOf(r) == {resp \in ControlOutcomes(r) : ResponseFailed(resp)}

\* the create or start request that completed in the step
Completed(kind) == {r \in controlReqs \ controlReqs' : r.kind = kind}

StatusNotFound == RespErr(DetailBody("Session not found"))
AnalysisNotFound == RespErr(DetailBody("Analysis not found"))

\* C25: when a status fetch of the mounted page completes with the 404 of an
\* unknown sessionId, a message is shown and no interval is left to repeat the
\* fetch; when an analysis fetch of the current scope completes with the 404 of
\* an unknown conversationId, the error is shown and the scope has no timeout
\* and no fetch.
C25_NotFoundSurfacedNoRetry ==
  [][/\ (mounted /\ \E i \in 1..Len(statusReqs) : fetchSessionStatusResume(i, StatusNotFound))
        => /\ errorMessage' \notin {NullV, Absent, ""}
           /\ timers' = {}
     /\ (\E r \in analysisReqs :
            r.scope = scope /\ aMounted /\ fetchAnalysisResume(r, AnalysisNotFound))
        => /\ error' = "Analysis not found"
           /\ renderContent' = "error"
           /\ ~ScopeActive']_vars

\* C26: the session view leaves null only when a create request completes
\* successfully, and that request was issued after the latest selection change;
\* no status, start or earlier create response populates a null view.
C26_ViewNullUntilNewCreate ==
  [][(session.null /\ ~session'.null)
       => /\ ev'.kind = "create_ok"
          /\ \E r \in controlReqs \ controlReqs' : r.kind = "create" /\ r.epoch = epoch]_vars

\* the step applies the response of a status or start request of another
\* session than the one the view holds
ForeignResponseApplied ==
  /\ mounted /\ SidOf(session) # Absent
  /\ \/ \E i \in 1..Len(statusReqs) :
          /\ statusReqs[i].sid # SidOf(session)
          /\ \E resp \in Outcomes(statusReqs[i], StatusFailures) :
               fetchSessionStatusResume(i, resp)
     \/ \E r \in controlReqs :
          /\ r.kind = "start" /\ r.sid # SidOf(session)
          /\ \E resp \in ControlOutcomes(r) : handleStartBotResume(r, resp)

\* C27: the sessionId of a view that holds a session is replaced by another only when a
\* create response is applied, and a status or start response of another
\* session leaves every field of the view as it was.
C27_NoCrossSessionMerge ==
  [][/\ (SidOf(session) # Absent /\ ~session'.null /\ SidOf(session') # SidOf(session))
        => ev'.kind = "create_ok"
     /\ ForeignResponseApplied => session' = session]_vars

\* C28: a session view that is not null carries a sessionId, a roomUrl and a
\* status, and is never the fallback body of the forwarding boundary.
C28_ViewIsSnapshot ==
  ~session.null
    => /\ \A f \in {"sessionId", "roomUrl", "status"} : session.obj[f] \notin {Absent, NullV}
       /\ session.obj # FallbackBody

CreatesInFlight == {r \in controlReqs : r.kind = "create"}

\* C29: at most one create request is in flight, and while the page is mounted
\* and one is in flight isCreatingSession is true, so the create button is
\* disabled.
C29_OneCreateInFlight ==
  /\ Cardinality(CreatesInFlight) <= 1
  /\ (mounted /\ CreatesInFlight # {}) => isCreatingSession

\* the message each route gives with its 400
RequiredMessage(route) ==
  IF route = "create" THEN "Invalid JSON payload"
  ELSE IF route = "start" THEN "Session ID is required"
  ELSE "conversationId is required"

\* C30: a create request whose body is not valid JSON, and a start or analysis
\* request whose id is empty, has its one response as soon as the handler has
\* run: status 400 with the route's message, "Invalid JSON payload" for the
\* create route, and no request to the backend was made for it.
C30_ValidationBeforeForward ==
  \A id \in 1..Len(inbound) :
     ~ValidInbound(inbound[id])
     => /\ inbound[id].phase = "done" /\ inbound[id].up = NoOutcome
        /\ ForwardsOf(id) = {}
        /\ Cardinality(RepliesTo(id)) = 1
        /\ \A i \in RepliesTo(id) :
             /\ outbox[i].kind = "response" /\ outbox[i].status = 400
             /\ JsonParse(outbox[i].text) = MessageBody(RequiredMessage(inbound[id].route))

\* a create request with a body that is not JSON was rejected while a start
\* request before it is at the backend, and nothing was forwarded for the
\* rejected one
C30_Witness ==
  /\ Len(inbound) = 2
  /\ inbound[1].route = "start" /\ inbound[1].param = Sid(1) /\ inbound[1].phase = "fetching"
  /\ inbound[2].route = "create" /\ inbound[2].text = InvalidText /\ inbound[2].phase = "done"
  /\ Len(upstreamReqs) = 1 /\ upstreamReqs[1].id = 1
  /\ Len(outbox) = 1 /\ outbox[1].id = 2 /\ outbox[1].status = 400

====
